---- MODULE Spec2Model ----
(***************************************************************************)
(* A model of the PDF -> Markdown -> natural language pipeline of          *)
(* main.py, pdf_parser.py, nlp_processor.py and prompts.py.                *)
(*                                                                         *)
(* Texts are sequences of atoms (characters or words), paths are records   *)
(* [dir, stem, suffix], file names are records [stem, suffix].  The two    *)
(* remote backends and the input file system are a fixed fixture           *)
(* (Documents): one entry per path, saying whether the file exists and     *)
(* what the parse backend, the completion backend and the output file      *)
(* system answer for it.                                                   *)
(***************************************************************************)
EXTENDS Integers, Sequences, FiniteSets, TLC

\* Longest input list handed to process_multiple_pdfs(_async).
MaxDocs == 2

\* Python's None, True and False as the values of an optional flag
\* (use_table_prompt) or an optional string (custom_prompt).
None == "None"
True == "True"
False == "False"

-----------------------------------------------------------------------------
(* Texts *)

RECURSIVE Join(_, _)
\* sep.join(parts)
Join(parts, sep) ==
    IF Len(parts) = 0 THEN <<>>
    ELSE IF Len(parts) = 1 THEN parts[1]
    ELSE parts[1] \o sep \o Join(Tail(parts), sep)

\* "sub in text" for strings.
Contains(sub, text) ==
    \E k \in 0..(Len(text) - Len(sub)) : SubSeq(text, k + 1, k + Len(sub)) = sub

\* config.LLAMA_PARSE_CONFIG["page_separator"]: "\n\n---\n\n", one of the
\* keyword arguments the LlamaParse client is constructed with.
page_separator == <<"LF", "LF", "-", "-", "-", "LF", "LF">>

\* A parser adapter that joined the pages with the configured separator.
PageJoiner_Configured == page_separator

\* The separator the parser adapter joins the page texts with: "\n\n".
PageJoiner == <<"LF", "LF">>

-----------------------------------------------------------------------------
(* config.py *)

MARKDOWN_DIR == "output/markdown"
NATURAL_LANGUAGE_DIR == "output/natural_language"
DATA_DIR == "data"
CLAUDE_MODEL == "claude-sonnet-4-20250514"

-----------------------------------------------------------------------------
(* pathlib *)

MkPath(dir, stem, suffix) == [dir |-> dir, stem |-> stem, suffix |-> suffix]

\* Path.name: the last component, without the directory.
Name(p) == [stem |-> p.stem, suffix |-> p.suffix]

\* Path(name).stem
Stem(name) == name.stem

\* Python's None where a path is expected (markdown_path, nl_path).
NonePath == MkPath("None", "None", "None")

\* output_dir / filename
InDir(dir, name) == [dir |-> dir, stem |-> name.stem, suffix |-> name.suffix]

-----------------------------------------------------------------------------
(* The fixture: input files and the mocked backends' answers per path.     *)
(*   exists    the file is on the local file system                        *)
(*   parse     Ok or the exception parser.parse / parser.aparse raises   *)
(*   pages     page texts get_markdown_documents(split_by_page) returns    *)
(*   complete  Ok or the exception client.messages.create raises         *)
(*   text, input_tokens, output_tokens   the completion response           *)
(*   md_write, nl_write   Ok or the OSError open(..., "w") raises        *)

Exc(type, msg) == [type |-> type, msg |-> msg]

\* The answer of a call that raises nothing.
Ok == [ok |-> TRUE]

Doc(dir, stem, exists, parse, pages, complete, itok, otok, mdw, nlw) ==
    [path |-> MkPath(dir, stem, "pdf"), exists |-> exists, parse |-> parse,
     pages |-> pages, complete |-> complete, text |-> <<"nl:", dir, stem>>,
     input_tokens |-> itok, output_tokens |-> otok,
     md_write |-> mdw, nl_write |-> nlw]

Documents ==
    { Doc("data", "a", TRUE, Ok, << <<"w">>, <<"w", "w">> >>, Ok, 3, 2, Ok, Ok),
      Doc("data", "b", TRUE, Ok, << <<"|", "w", "|">> >>, Ok, 5, 4, Ok, Ok),
      Doc("in", "a", TRUE, Ok, << <<"w", "-", "-", "-">> >>, Ok, 7, 1, Ok, Ok),
      Doc("in", "ghost", FALSE, Ok, << >>, Ok, 0, 0, Ok, Ok),
      Doc("in", "corrupt", TRUE, Exc("ParseError", <<"cannot parse", "corrupt">>),
          << >>, Ok, 0, 0, Ok, Ok),
      Doc("data", "huge", TRUE, Ok, << <<"w">>, <<"w">>, <<"w">> >>,
          Exc("APIError", <<"prompt too long", "huge">>), 0, 0, Ok, Ok),
      Doc("in", "lock", TRUE, Ok, << <<"w">> >>, Ok, 2, 2,
          Exc("OSError", <<"permission denied", "lock.md">>), Ok),
      Doc("in", "full", TRUE, Ok, << <<"w">> >>, Ok, 4, 6, Ok,
          Exc("OSError", <<"no space left", "full_nl.txt">>)) }

Paths == { d.path : d \in Documents }

\* The directories of the input file system, and a file that is no PDF.
Directories == {"data", "in", "empty"}
OtherFiles == { MkPath("data", "notes", "txt") }

\* The order of the file names: sorted() of the stems of the fixture.
StemOrder == <<"a", "b", "corrupt", "full", "ghost", "huge", "lock", "notes">>

DocOf(p) == CHOOSE d \in Documents : d.path = p

\* Path.exists()
Exists(p) == DocOf(p).exists

-----------------------------------------------------------------------------
(* prompts.py *)

\* The indicator substrings of get_prompt_for_data; the five Japanese words
\* (tate-jiku, yoko-jiku, gyo, retsu, seru) are one atom each.
table_indicators ==
    { <<"|">>, <<"-", "-", "-">>, <<"<table>">>, <<"<tr>">>, <<"<td>">>,
      <<"tatejiku">>, <<"yokojiku">>, <<"gyo">>, <<"retsu">>, <<"seru">> }

\* A detection that asked for every indicator at once.
AutoDetect_All(markdown_content) ==
    \A indicator \in table_indicators : Contains(indicator, markdown_content)

\* any(indicator in markdown_content for indicator in table_indicators)
AutoDetect(markdown_content) ==
    \E indicator \in table_indicators : Contains(indicator, markdown_content)

\* get_prompt_for_data: the template chosen, formatted with the content.
get_prompt_for_data(markdown_content, table_prompt) ==
    LET chosen == IF table_prompt = None THEN AutoDetect(markdown_content)
                  ELSE table_prompt = True
    IN  [template |-> IF chosen THEN "STRUCTURED_DATA_EXTRACTION_PROMPT"
                      ELSE "GENERAL_EXTRACTION_PROMPT",
         markdown_content |-> markdown_content]

-----------------------------------------------------------------------------
(* pdf_parser.py *)

\* The exception parse_single_pdf(_async) raises for a missing file.
NotFound(p) == Exc("FileNotFoundError", <<"PDF file not found: ", p>>)

\* The dictionary parse_single_pdf(_async) builds from the backend's pages.
ParsedData(p, pages) ==
    [filename |-> Name(p),
     markdown |-> Join(pages, PageJoiner),
     page_count |-> Len(pages)]

\* save_markdown: the path written, <MARKDOWN_DIR>/<stem>.md
MarkdownPath(parsed_data) ==
    InDir(MARKDOWN_DIR, [stem |-> Stem(parsed_data.filename), suffix |-> "md"])

-----------------------------------------------------------------------------
(* nlp_processor.py *)

\* "if custom_prompt": None and the empty string are both false.
Given(custom_prompt) == custom_prompt # None /\ custom_prompt # ""

\* The tag process_markdown puts into its result.
PromptType(table_prompt, custom_prompt) ==
    IF Given(custom_prompt) THEN "custom"
    ELSE IF table_prompt = True THEN "table" ELSE "general"

\* The prompt process_markdown submits.
SubmittedPrompt(markdown_content, table_prompt, custom_prompt) ==
    IF Given(custom_prompt) THEN [template |-> "custom", markdown_content |-> custom_prompt]
    ELSE get_prompt_for_data(markdown_content, table_prompt)

\* The dictionary process_markdown returns for the backend's message.
NlResult(message, table_prompt, custom_prompt) ==
    [natural_language |-> message.text,
     model |-> CLAUDE_MODEL,
     input_tokens |-> message.input_tokens,
     output_tokens |-> message.output_tokens,
     prompt_type |-> PromptType(table_prompt, custom_prompt)]

\* save_natural_language with an explicit filename: the path written.
NlPath(filename) == InDir(NATURAL_LANGUAGE_DIR, filename)

\* The metadata header and the body save_natural_language writes.
NlFileContent(processed_data) ==
    [model |-> processed_data.model,
     prompt_type |-> processed_data.prompt_type,
     input_tokens |-> processed_data.input_tokens,
     output_tokens |-> processed_data.output_tokens,
     body |-> processed_data.natural_language]

-----------------------------------------------------------------------------
(* main.py: Pipeline *)

\* pdf_path.stem + "_nl.txt"
NlFilename(p) == [stem |-> p.stem \o "_nl", suffix |-> "txt"]

\* The dictionary process_single_pdf(_async) returns.
SuccessRecord(p, parsed_data, markdown_path, nl_result, nl_path) ==
    [pdf_file |-> Name(p),
     markdown |-> parsed_data.markdown,
     markdown_path |-> markdown_path,
     natural_language |-> nl_result.natural_language,
     natural_language_path |-> nl_path,
     page_count |-> parsed_data.page_count,
     model |-> nl_result.model,
     input_tokens |-> nl_result.input_tokens,
     output_tokens |-> nl_result.output_tokens]

\* str(e)
Str(e) == e.msg

\* The dictionary the batch methods record for a document that raised.
FailureRecord(p, e) == [pdf_file |-> Name(p), error |-> Str(e)]

\* isinstance(x, Exception), for the values of this model.
IsException(x) == "type" \in DOMAIN x

\* "error" in r
HasError(r) == "error" \in DOMAIN r

-----------------------------------------------------------------------------
(* State *)

VARIABLES
    pdf_paths,              \* the list handed to the batch method
    use_table_prompt,       \* None, True or False
    save_markdown,          \* BOOLEAN
    save_natural_language,  \* BOOLEAN
    use_async,              \* TRUE: process_multiple_pdfs_async is the method called
    call,                   \* the batch call: "none", "active", "returned", "raised"
    pc,                     \* per position: where process_single_pdf(_async) stands
    task_out,               \* per position: the asyncio task's result or exception
    finished,               \* the positions of the asyncio tasks in the order they ended
    results,                \* the list of records built (and returned) by the batch method
    files,                  \* the output file system: path -> content
    writes,                 \* the open(path, "w") writes of this batch call: [pos, path]
    remote,                 \* the remote requests sent, in order: [pos, api]
    billed,                 \* tokens the completion backend has reported
    argv,                   \* the parsed command line of main()
    environ,                \* config.py's LLAMA_PARSE_API_KEY and ANTHROPIC_API_KEY
    main_pc,                \* where main() stands ("lib": the batch method was called directly)
    exit_code,              \* the exit code of the process, -1 while it runs
    summary,                \* the processing summary main() prints
    first_results,          \* the report of an earlier batch call on the same inputs
    unit_call,              \* an adapter method called directly: its name and arguments
    unit_ret                \* what that method has returned or raised, Pending before

batch_vars == <<pdf_paths, use_table_prompt, save_markdown, save_natural_language,
                use_async, call, pc, task_out, finished, results>>
env_vars == <<files, writes, remote, billed>>
unit_vars == <<unit_call, unit_ret>>
main_vars == <<argv, environ, main_pc, exit_code, summary, first_results, unit_vars>>
vars == <<batch_vars, env_vars, main_vars>>

N == Len(pdf_paths)

Pending == [pending |-> TRUE]

\* Lists of at most n paths.
ListsUpTo(n) == UNION { [1..k -> Paths] : k \in 0..n }

\* The state in which a batch method has just been entered with these arguments.
Entered(paths, table_prompt, save_md, save_nl, async) ==
    /\ pdf_paths = paths
    /\ use_table_prompt = table_prompt
    /\ save_markdown = save_md
    /\ save_natural_language = save_nl
    /\ use_async = async
    /\ call = "active"
    /\ pc = [i \in 1..Len(paths) |-> "start"]
    /\ task_out = [i \in 1..Len(paths) |-> Pending]
    /\ finished = <<>>
    /\ results = <<>>

EnvInit ==
    /\ files = << >>
    /\ writes = {}
    /\ remote = <<>>
    /\ billed = 0

\* No command line, nothing exited, nothing printed.
NoArgs == [pdf_path |-> NonePath]
NoEnviron == [LLAMA_PARSE_API_KEY |-> "", ANTHROPIC_API_KEY |-> ""]
NoSummary == [printed |-> FALSE]
NoCall == [fn |-> "none"]

\* No adapter method is called on its own.
UnitIdle ==
    /\ unit_call = NoCall
    /\ unit_ret = Pending

LibInit ==
    /\ argv = NoArgs
    /\ environ = NoEnviron
    /\ main_pc = "lib"
    /\ exit_code = -1
    /\ summary = NoSummary
    /\ first_results = <<>>
    /\ UnitIdle

Init ==
    /\ LibInit
    /\ \E paths \in ListsUpTo(MaxDocs), table_prompt \in {None, True, False},
          save_md \in BOOLEAN, save_nl \in BOOLEAN, async \in BOOLEAN :
            Entered(paths, table_prompt, save_md, save_nl, async)
    /\ EnvInit

\* A writer that never overwrites: a name already taken gets a suffix.
WriteFile_KeepOld(i, path, content) ==
    LET target == IF path \in DOMAIN files
                  THEN [path EXCEPT !.stem = @ \o "_1"] ELSE path
    IN  /\ files' = (target :> content) @@ files
        /\ writes' = writes \cup {[pos |-> i, path |-> target]}

\* with open(path, "w") as f: f.write(content)
WriteFile(i, path, content) ==
    /\ files' = (path :> content) @@ files
    /\ writes' = writes \cup {[pos |-> i, path |-> path]}

\* A request goes out to a remote backend: api is "parse" or "complete".
Send(i, api) == remote' = Append(remote, [pos |-> i, api |-> api])

-----------------------------------------------------------------------------
(* Pipeline.process_multiple_pdfs with Pipeline.process_single_pdf *)

\* Mutant: except FileNotFoundError as e.
Caught_OnlyNotFound(e) == e.type = "FileNotFoundError"

\* except Exception as e: every exception of this model is an Exception.
Caught(e) == TRUE

\* Mutant: except Exception: continue, without a record.
SeqRaise_Swallow(i, e) ==
    /\ pc' = [pc EXCEPT ![i] = "done"]
    /\ UNCHANGED <<pdf_paths, use_table_prompt, save_markdown, save_natural_language,
                   use_async, call, results, task_out, finished, main_vars>>

\* An exception e leaves process_single_pdf for position i: the except clause
\* of process_multiple_pdfs appends the failure record.
SeqRaise(i, e) ==
    /\ pc' = [pc EXCEPT ![i] = "done"]
    /\ IF Caught(e)
       THEN /\ results' = Append(results, FailureRecord(pdf_paths[i], e))
            /\ call' = call
       ELSE /\ call' = "raised"
            /\ results' = results
    /\ UNCHANGED <<pdf_paths, use_table_prompt, save_markdown, save_natural_language,
                   use_async, task_out, finished, main_vars>>

\* A loop that took up any document of the list, whatever the others do.
SeqCurrent_AnyOrder(i) ==
    /\ call = "active"
    /\ ~use_async
    /\ i \in 1..N

\* The document the for loop of process_multiple_pdfs is at.
SeqCurrent(i) ==
    /\ call = "active"
    /\ ~use_async
    /\ i \in 1..N
    /\ i = Len(results) + 1

\* parse_single_pdf up to the remote call: the existence check, then
\* self.parser.parse(...) is sent.
SeqParseCall(i) ==
    /\ SeqCurrent(i)
    /\ pc[i] = "start"
    /\ IF ~Exists(pdf_paths[i])
       THEN /\ SeqRaise(i, NotFound(pdf_paths[i]))
            /\ UNCHANGED env_vars
       ELSE /\ pc' = [pc EXCEPT ![i] = "in_parse"]
            /\ Send(i, "parse")
            /\ UNCHANGED <<pdf_paths, use_table_prompt, save_markdown,
                           save_natural_language, use_async, call, task_out, finished,
                           results, files, writes, billed, main_vars>>

\* A pipeline that kept the markdown in memory and sent the completion
\* request without saving it first.
SeqParseReturn_SaveDeferred(i) ==
    /\ SeqCurrent(i)
    /\ pc[i] = "in_parse"
    /\ IF IsException(DocOf(pdf_paths[i]).parse)
       THEN SeqRaise(i, DocOf(pdf_paths[i]).parse) /\ UNCHANGED env_vars
       ELSE /\ pc' = [pc EXCEPT ![i] = "in_complete"]
            /\ Send(i, "complete")
            /\ UNCHANGED <<pdf_paths, use_table_prompt, save_markdown,
                           save_natural_language, use_async, call, task_out,
                           finished, results, files, writes, billed, main_vars>>

\* The parse call returns: parsed_data is built, the markdown is saved if
\* requested, and process_markdown sends the completion request.
SeqParseReturn(i) ==
    /\ SeqCurrent(i)
    /\ pc[i] = "in_parse"
    /\ LET p == pdf_paths[i]
           d == DocOf(p)
           parsed_data == ParsedData(p, d.pages)
       IN  IF IsException(d.parse)
           THEN SeqRaise(i, d.parse) /\ UNCHANGED env_vars
           ELSE IF save_markdown /\ IsException(d.md_write)
           THEN SeqRaise(i, d.md_write) /\ UNCHANGED env_vars
           ELSE /\ IF save_markdown
                   THEN WriteFile(i, MarkdownPath(parsed_data),
                                  [markdown |-> parsed_data.markdown])
                   ELSE UNCHANGED <<files, writes>>
                /\ pc' = [pc EXCEPT ![i] = "in_complete"]
                /\ Send(i, "complete")
                /\ UNCHANGED <<pdf_paths, use_table_prompt, save_markdown,
                               save_natural_language, use_async, call, task_out,
                               finished, results, billed, main_vars>>

\* The completion call returns: nl_result is built, the natural language is
\* saved if requested, the record is returned and appended.
SeqCompleteReturn(i) ==
    /\ SeqCurrent(i)
    /\ pc[i] = "in_complete"
    /\ LET p == pdf_paths[i]
           d == DocOf(p)
           parsed_data == ParsedData(p, d.pages)
           markdown_path == IF save_markdown THEN MarkdownPath(parsed_data) ELSE NonePath
           nl_result == NlResult(d, use_table_prompt, None)
           nl_path == IF save_natural_language THEN NlPath(NlFilename(p)) ELSE NonePath
       IN  IF IsException(d.complete)
           THEN SeqRaise(i, d.complete) /\ UNCHANGED env_vars
           ELSE /\ billed' = billed + d.input_tokens + d.output_tokens
                /\ UNCHANGED remote
                /\ IF save_natural_language /\ IsException(d.nl_write)
                   THEN SeqRaise(i, d.nl_write) /\ UNCHANGED <<files, writes>>
                   ELSE /\ IF save_natural_language
                           THEN WriteFile(i, nl_path, NlFileContent(nl_result))
                           ELSE UNCHANGED <<files, writes>>
                        /\ pc' = [pc EXCEPT ![i] = "done"]
                        /\ results' = Append(results,
                              SuccessRecord(p, parsed_data, markdown_path, nl_result, nl_path))
                        /\ UNCHANGED <<pdf_paths, use_table_prompt, save_markdown,
                                       save_natural_language, use_async, call, task_out,
                                       finished, main_vars>>

\* return results
SeqReturn ==
    /\ call = "active"
    /\ ~use_async
    /\ Len(results) = N
    /\ call' = "returned"
    /\ UNCHANGED <<pdf_paths, use_table_prompt, save_markdown, save_natural_language,
                   use_async, pc, task_out, finished, results, env_vars, main_vars>>

-----------------------------------------------------------------------------
(* Pipeline.process_multiple_pdfs_async with Pipeline.process_single_pdf_async *)

\* Mutant: the completion call is awaited like the parse call.
LoopFree_Awaited == TRUE

\* The event loop thread is free: no task is inside the blocking
\* self.client.messages.create(...) call of process_markdown, which is a plain
\* (not awaited) call and does not return the thread to the loop.
LoopFree == \A j \in 1..N : pc[j] # "in_complete"

\* The task of position i ends with the value or exception out.
TaskEnds(i, out) ==
    /\ pc' = [pc EXCEPT ![i] = "done"]
    /\ task_out' = [task_out EXCEPT ![i] = out]
    /\ finished' = Append(finished, i)
    /\ UNCHANGED <<pdf_paths, use_table_prompt, save_markdown, save_natural_language,
                   use_async, call, results, main_vars>>

\* The task of position i runs for the first time (the loop starts the tasks
\* in the order gather received them): the existence check of
\* parse_single_pdf_async, then await self.parser.aparse(...) suspends it.
AsyncParseCall(i) ==
    /\ call = "active"
    /\ use_async
    /\ i \in 1..N
    /\ pc[i] = "start"
    /\ \A j \in 1..(i - 1) : pc[j] # "start"
    /\ LoopFree
    /\ IF ~Exists(pdf_paths[i])
       THEN /\ TaskEnds(i, NotFound(pdf_paths[i]))
            /\ UNCHANGED env_vars
       ELSE /\ pc' = [pc EXCEPT ![i] = "in_parse"]
            /\ Send(i, "parse")
            /\ UNCHANGED <<pdf_paths, use_table_prompt, save_markdown,
                           save_natural_language, use_async, call, task_out, finished,
                           results, files, writes, billed, main_vars>>

\* The awaited parse call of position i completes and the loop resumes the
\* task: parsed_data is built, the markdown is saved if requested, and
\* process_markdown sends the completion request and blocks.
AsyncParseReturn(i) ==
    /\ call = "active"
    /\ use_async
    /\ i \in 1..N
    /\ pc[i] = "in_parse"
    /\ LoopFree
    /\ LET p == pdf_paths[i]
           d == DocOf(p)
           parsed_data == ParsedData(p, d.pages)
       IN  IF IsException(d.parse)
           THEN TaskEnds(i, d.parse) /\ UNCHANGED env_vars
           ELSE IF save_markdown /\ IsException(d.md_write)
           THEN TaskEnds(i, d.md_write) /\ UNCHANGED env_vars
           ELSE /\ IF save_markdown
                   THEN WriteFile(i, MarkdownPath(parsed_data),
                                  [markdown |-> parsed_data.markdown])
                   ELSE UNCHANGED <<files, writes>>
                /\ pc' = [pc EXCEPT ![i] = "in_complete"]
                /\ Send(i, "complete")
                /\ UNCHANGED <<pdf_paths, use_table_prompt, save_markdown,
                               save_natural_language, use_async, call, task_out,
                               finished, results, billed, main_vars>>

\* The blocking completion call of position i returns: nl_result is built,
\* the natural language is saved if requested, and the coroutine returns.
AsyncCompleteReturn(i) ==
    /\ call = "active"
    /\ use_async
    /\ i \in 1..N
    /\ pc[i] = "in_complete"
    /\ LET p == pdf_paths[i]
           d == DocOf(p)
           parsed_data == ParsedData(p, d.pages)
           markdown_path == IF save_markdown THEN MarkdownPath(parsed_data) ELSE NonePath
           nl_result == NlResult(d, use_table_prompt, None)
           nl_path == IF save_natural_language THEN NlPath(NlFilename(p)) ELSE NonePath
       IN  IF IsException(d.complete)
           THEN TaskEnds(i, d.complete) /\ UNCHANGED env_vars
           ELSE /\ billed' = billed + d.input_tokens + d.output_tokens
                /\ UNCHANGED remote
                /\ IF save_natural_language /\ IsException(d.nl_write)
                   THEN TaskEnds(i, d.nl_write) /\ UNCHANGED <<files, writes>>
                   ELSE /\ IF save_natural_language
                           THEN WriteFile(i, nl_path, NlFileContent(nl_result))
                           ELSE UNCHANGED <<files, writes>>
                        /\ TaskEnds(i,
                              SuccessRecord(p, parsed_data, markdown_path, nl_result, nl_path))

\* asyncio.gather's default: the first exception of a task leaves the await.
ReturnExceptions_Default == FALSE

\* asyncio.gather(*tasks, return_exceptions=True)
ReturnExceptions == TRUE

\* Mutant: the outcomes in the order the tasks ended (as_completed).
GatherResults_CompletionOrder == [k \in 1..N |-> task_out[finished[k]]]

\* The list gather returns: the outcome of each awaitable, in the order the
\* awaitables were passed.
GatherResults == [i \in 1..N |-> task_out[i]]

\* Mutant: the loop variable pdf_path left over from the task-creating loop.
Zipped_Stale(i) == pdf_paths[N]

\* The document the record of position i is made for: zip(pdf_paths, results).
Zipped(i) == pdf_paths[i]

\* Mutant: the failure record describes the exception by its type and message.
ProcessedResults_Repr(gathered) ==
    [i \in 1..N |-> IF IsException(gathered[i])
                    THEN [pdf_file |-> Name(Zipped(i)),
                          error |-> <<gathered[i].type>> \o Str(gathered[i])]
                    ELSE gathered[i]]

\* The for loop over zip(pdf_paths, results).
ProcessedResults(gathered) ==
    [i \in 1..N |-> IF IsException(gathered[i])
                    THEN FailureRecord(Zipped(i), gathered[i])
                    ELSE gathered[i]]

\* gather completes once every task has ended; with return_exceptions it
\* never raises, without it the first exception of a task leaves the await.
AsyncGather ==
    /\ call = "active"
    /\ use_async
    /\ IF ReturnExceptions
       THEN /\ \A i \in 1..N : pc[i] = "done"
            /\ results' = ProcessedResults(GatherResults)
            /\ call' = "returned"
       ELSE /\ \/ \A i \in 1..N : pc[i] = "done"
               \/ \E i \in 1..N : IsException(task_out[i])
            /\ IF \E i \in 1..N : IsException(task_out[i])
               THEN call' = "raised" /\ results' = results
               ELSE results' = ProcessedResults(GatherResults) /\ call' = "returned"
    /\ UNCHANGED <<pdf_paths, use_table_prompt, save_markdown, save_natural_language,
                   use_async, pc, task_out, finished, env_vars, main_vars>>

-----------------------------------------------------------------------------

BatchNext ==
    \/ \E i \in 1..N : SeqParseCall(i)
    \/ \E i \in 1..N : SeqParseReturn(i)
    \/ \E i \in 1..N : SeqCompleteReturn(i)
    \/ SeqReturn
    \/ \E i \in 1..N : AsyncParseCall(i)
    \/ \E i \in 1..N : AsyncParseReturn(i)
    \/ \E i \in 1..N : AsyncCompleteReturn(i)
    \/ AsyncGather

Next == BatchNext

Spec == Init /\ [][Next]_vars

-----------------------------------------------------------------------------
(* The concurrent batch under the scheduling asyncio gives it: the event   *)
(* loop runs every task that is ready, every request to a backend is       *)
(* answered (with a result or an exception), and gather resumes its caller *)
(* once it can.                                                            *)

InitConcurrent ==
    /\ LibInit
    /\ \E paths \in ListsUpTo(MaxDocs), table_prompt \in {None, True, False},
          save_md \in BOOLEAN, save_nl \in BOOLEAN :
            Entered(paths, table_prompt, save_md, save_nl, TRUE)
    /\ EnvInit

NextConcurrent ==
    \/ \E i \in 1..N : AsyncParseCall(i)
    \/ \E i \in 1..N : AsyncParseReturn(i)
    \/ \E i \in 1..N : AsyncCompleteReturn(i)
    \/ AsyncGather

Scheduling ==
    /\ \A i \in 1..MaxDocs :
          /\ WF_vars(i <= N /\ AsyncParseCall(i))
          /\ WF_vars(i <= N /\ AsyncParseReturn(i))
          /\ WF_vars(i <= N /\ AsyncCompleteReturn(i))
    /\ WF_vars(AsyncGather)

SpecConcurrent == InitConcurrent /\ [][NextConcurrent]_vars /\ Scheduling

\* A batch method is entered with these arguments.
EnterBatch(paths, table_prompt, save_md, save_nl, async) ==
    /\ pdf_paths' = paths
    /\ use_table_prompt' = table_prompt
    /\ save_markdown' = save_md
    /\ save_natural_language' = save_nl
    /\ use_async' = async
    /\ call' = "active"
    /\ pc' = [i \in 1..Len(paths) |-> "start"]
    /\ task_out' = [i \in 1..Len(paths) |-> Pending]
    /\ finished' = <<>>
    /\ results' = <<>>
    /\ writes' = {}

-----------------------------------------------------------------------------
(* main.py: main() *)

\* x or y, for strings and None.
Or(x, y) == IF x # None /\ x # "" THEN x ELSE y

\* A directory given on the command line.
DirPath(name) == MkPath(".", name, "")

\* Path.is_dir()
IsDir(p) == p.suffix = "" /\ p.stem \in Directories

\* sorted(S), for files of one directory.
Sorted(S) ==
    LET present == SelectSeq(StemOrder, LAMBDA st : \E p \in S : p.stem = st)
    IN  [k \in 1..Len(present) |-> CHOOSE p \in S : p.stem = present[k]]

\* get_all_pdfs_in_directory: sorted(directory.glob("*.pdf"))
get_all_pdfs_in_directory(dirname) ==
    Sorted({ p \in { d.path : d \in { x \in Documents : x.exists } } \cup OtherFiles :
                p.dir = dirname /\ p.suffix = "pdf" })

\* The prompt selector main() derives from --table-prompt / --general-prompt.
PromptFlag(args) ==
    IF args.table_prompt THEN True
    ELSE IF args.general_prompt THEN False
    ELSE None

\* A main() that dropped a single path naming no file.
ResolvePaths_ExistingOnly(args) ==
    IF args.pdf_path # NonePath
    THEN IF IsDir(args.pdf_path)
         THEN get_all_pdfs_in_directory(args.pdf_path.stem)
         ELSE IF Exists(args.pdf_path) THEN <<args.pdf_path>> ELSE <<>>
    ELSE get_all_pdfs_in_directory(DATA_DIR)

\* The list of paths main() processes.
ResolvePaths(args) ==
    IF args.pdf_path # NonePath
    THEN IF IsDir(args.pdf_path)
         THEN get_all_pdfs_in_directory(args.pdf_path.stem)
         ELSE <<args.pdf_path>>
    ELSE get_all_pdfs_in_directory(DATA_DIR)

\* Mutant: only the parser adapter checks its key.
CredentialsOk_LlamaOnly(args, env) ==
    Or(args.llama_api_key, env.LLAMA_PARSE_API_KEY) # ""

\* PDFParser.__init__ and NLPProcessor.__init__ both find an API key.
CredentialsOk(args, env) ==
    /\ Or(args.llama_api_key, env.LLAMA_PARSE_API_KEY) # ""
    /\ Or(args.anthropic_api_key, env.ANTHROPIC_API_KEY) # ""

\* successful = [r for r in results if "error" not in r]
Successful(res) == SelectSeq(res, LAMBDA r : ~HasError(r))

\* failed = [r for r in results if "error" in r]
Failed(res) == SelectSeq(res, LAMBDA r : HasError(r))

\* Mutant: the total is what the backend has reported for every call.
TotalTokens_Billed(successful) == billed

RECURSIVE TotalTokens(_)
\* sum(r["input_tokens"] + r["output_tokens"] for r in successful)
TotalTokens(successful) ==
    IF successful = <<>> THEN 0
    ELSE Head(successful).input_tokens + Head(successful).output_tokens
            + TotalTokens(Tail(successful))

\* The processing summary: the three counts, the total token usage (printed
\* only if a document succeeded) and the failed files with their errors.
Summary(res) ==
    [printed |-> TRUE,
     total |-> Len(res),
     successful |-> Len(Successful(res)),
     failed |-> Len(Failed(res)),
     total_tokens |-> IF Successful(res) # <<>>
                      THEN <<TotalTokens(Successful(res))>> ELSE <<>>,
     failed_files |-> [k \in 1..Len(Failed(res)) |->
                          <<Failed(res)[k].pdf_file, Failed(res)[k].error>>]]

\* Mutant: sys.exit(1) when a document failed.
ExitAfterRun_FailOnError(res) == IF Failed(res) # <<>> THEN 1 ELSE 0

\* The exit code of a main() that returns after the summary.
ExitAfterRun(res) == 0

\* The command lines considered: the positional argument is absent, a
\* directory, an existing file or a missing file.
ArgPaths ==
    { NonePath, DirPath("data"), DirPath("in"), DirPath("empty"),
      MkPath("in", "ghost", "pdf"), MkPath("in", "corrupt", "pdf"),
      MkPath("data", "a", "pdf") }

CommandLines ==
    [pdf_path : ArgPaths,
     llama_api_key : {None, "llx-key"},
     anthropic_api_key : {None, "sk-ant-key"},
     table_prompt : BOOLEAN,
     general_prompt : BOOLEAN,
     no_save_markdown : BOOLEAN,
     no_save_nl : BOOLEAN,
     use_async : BOOLEAN]

Environments ==
    [LLAMA_PARSE_API_KEY : {"", "llx-env"}, ANTHROPIC_API_KEY : {"", "sk-ant-env"}]

\* main() has parsed its command line; no batch method has been called.
InitMain ==
    /\ argv \in CommandLines
    /\ environ \in Environments
    /\ main_pc = "start"
    /\ exit_code = -1
    /\ summary = NoSummary
    /\ first_results = <<>>
    /\ UnitIdle
    /\ pdf_paths = <<>>
    /\ use_table_prompt = None
    /\ save_markdown = TRUE
    /\ save_natural_language = TRUE
    /\ use_async = FALSE
    /\ call = "none"
    /\ pc = <<>>
    /\ task_out = <<>>
    /\ finished = <<>>
    /\ results = <<>>
    /\ EnvInit

\* The prompt selector and the list of paths are determined; with no path
\* main() prints "No PDF files found." and exits with 1.
MainResolve ==
    /\ main_pc = "start"
    /\ use_table_prompt' = PromptFlag(argv)
    /\ pdf_paths' = ResolvePaths(argv)
    /\ IF ResolvePaths(argv) = <<>>
       THEN main_pc' = "exited" /\ exit_code' = 1
       ELSE main_pc' = "construct" /\ exit_code' = exit_code
    /\ UNCHANGED <<save_markdown, save_natural_language, use_async, call, pc, task_out,
                   finished, results, env_vars, argv, environ, summary, first_results, unit_vars>>

\* Pipeline(...) is constructed; a ValueError of an adapter's constructor is
\* caught, printed, and main() exits with 1.  Otherwise the batch method the
\* --async flag selects is called.
MainConstruct ==
    /\ main_pc = "construct"
    /\ IF ~CredentialsOk(argv, environ)
       THEN /\ main_pc' = "exited"
            /\ exit_code' = 1
            /\ UNCHANGED <<batch_vars, writes>>
       ELSE /\ main_pc' = "run"
            /\ exit_code' = exit_code
            /\ EnterBatch(pdf_paths, use_table_prompt, ~argv.no_save_markdown,
                          ~argv.no_save_nl, argv.use_async)
    /\ UNCHANGED <<files, remote, billed, argv, environ, summary, first_results, unit_vars>>

\* The batch method has returned: the summary is printed and main() returns.
\* An exception that left the batch method ends the process with 1.
MainFinish ==
    /\ main_pc = "run"
    /\ call \in {"returned", "raised"}
    /\ main_pc' = "exited"
    /\ IF call = "returned"
       THEN summary' = Summary(results) /\ exit_code' = ExitAfterRun(results)
       ELSE summary' = summary /\ exit_code' = 1
    /\ UNCHANGED <<batch_vars, env_vars, argv, environ, first_results, unit_vars>>

NextMain ==
    \/ MainResolve
    \/ MainConstruct
    \/ BatchNext
    \/ MainFinish

SpecMain == InitMain /\ [][NextMain]_vars

-----------------------------------------------------------------------------
(* A client that hands the same list, with the same flags, first to        *)
(* process_multiple_pdfs and then to process_multiple_pdfs_async of the    *)
(* same Pipeline, against the same backends.                               *)

InitPair ==
    /\ argv = NoArgs
    /\ environ = NoEnviron
    /\ main_pc = "first"
    /\ exit_code = -1
    /\ summary = NoSummary
    /\ first_results = <<>>
    /\ UnitIdle
    /\ \E paths \in ListsUpTo(MaxDocs), table_prompt \in {None, True, False},
          save_md \in BOOLEAN, save_nl \in BOOLEAN :
            Entered(paths, table_prompt, save_md, save_nl, FALSE)
    /\ EnvInit

\* The sequential call has returned; its report is kept and the concurrent
\* method is called with the same arguments.
CallAsyncOnSame ==
    /\ main_pc = "first"
    /\ call = "returned"
    /\ first_results' = results
    /\ main_pc' = "second"
    /\ EnterBatch(pdf_paths, use_table_prompt, save_markdown, save_natural_language, TRUE)
    /\ UNCHANGED <<files, remote, billed, argv, environ, exit_code, summary, unit_vars>>

NextPair == BatchNext \/ CallAsyncOnSame

SpecPair == InitPair /\ [][NextPair]_vars

-----------------------------------------------------------------------------
(* prompts.get_prompt_for_data and NLPProcessor.process_markdown, each     *)
(* called on its own with a text, a selector and (process_markdown) a      *)
(* custom prompt, against a completion backend that answers or raises.     *)

\* Longest document text, in atoms.
MaxTextLen == 3

\* The atoms of a text: a plain word, the pipe, the dash, and one of the
\* Japanese indicator words.
Atoms == {"w", "|", "-", "gyo"}

Texts == UNION { [1..k -> Atoms] : k \in 0..MaxTextLen }

\* custom_prompt: absent, the empty string, or a prompt of the caller.
CustomPrompts == {None, "", "Summarise this."}

\* What client.messages.create does: a message, or an exception.
Answers ==
    { [text |-> <<"nl">>, input_tokens |-> 3, output_tokens |-> 2],
      Exc("APIError", <<"overloaded">>) }

\* No batch method is running.
BatchIdle ==
    /\ pdf_paths = <<>>
    /\ use_table_prompt = None
    /\ save_markdown = TRUE
    /\ save_natural_language = TRUE
    /\ use_async = FALSE
    /\ call = "none"
    /\ pc = <<>>
    /\ task_out = <<>>
    /\ finished = <<>>
    /\ results = <<>>

\* Everything of main() idle, the unit call given.
UnitInit(c) ==
    /\ argv = NoArgs
    /\ environ = NoEnviron
    /\ main_pc = "unit"
    /\ exit_code = -1
    /\ summary = NoSummary
    /\ first_results = <<>>
    /\ unit_call = c
    /\ unit_ret = Pending
    /\ BatchIdle
    /\ EnvInit

PromptCalls ==
    { [fn |-> "get_prompt_for_data", markdown_content |-> t, use_table_prompt |-> s] :
        t \in Texts, s \in {None, True, False} }
    \cup
    { [fn |-> "process_markdown", markdown_content |-> t, use_table_prompt |-> s,
       custom_prompt |-> c, answer |-> a] :
        t \in Texts, s \in {None, True, False}, c \in CustomPrompts, a \in Answers }

InitPrompts == \E c \in PromptCalls : UnitInit(c)

\* prompts.get_prompt_for_data(markdown_content, use_table_prompt)
GetPromptForData ==
    /\ unit_call.fn = "get_prompt_for_data"
    /\ unit_ret = Pending
    /\ unit_ret' = [value |-> get_prompt_for_data(unit_call.markdown_content,
                                                  unit_call.use_table_prompt)]
    /\ UNCHANGED <<batch_vars, env_vars, argv, environ, main_pc, exit_code, summary,
                   first_results, unit_call>>

\* process_markdown up to client.messages.create: the prompt is chosen and
\* submitted.
ProcessMarkdownCall ==
    /\ unit_call.fn = "process_markdown"
    /\ unit_ret = Pending
    /\ unit_ret' = [prompt |-> SubmittedPrompt(unit_call.markdown_content,
                                               unit_call.use_table_prompt,
                                               unit_call.custom_prompt)]
    /\ Send(0, "complete")
    /\ UNCHANGED <<batch_vars, files, writes, billed, argv, environ, main_pc, exit_code,
                   summary, first_results, unit_call>>

\* client.messages.create returns or raises; process_markdown returns its
\* dictionary or lets the exception through.
ProcessMarkdownReturn ==
    /\ unit_call.fn = "process_markdown"
    /\ DOMAIN unit_ret = {"prompt"}
    /\ IF IsException(unit_call.answer)
       THEN /\ unit_ret' = [prompt |-> unit_ret.prompt, raised |-> unit_call.answer]
            /\ billed' = billed
       ELSE /\ unit_ret' = [prompt |-> unit_ret.prompt,
                            value |-> NlResult(unit_call.answer,
                                               unit_call.use_table_prompt,
                                               unit_call.custom_prompt)]
            /\ billed' = billed + unit_call.answer.input_tokens
                                + unit_call.answer.output_tokens
    /\ UNCHANGED <<batch_vars, files, writes, remote, argv, environ, main_pc, exit_code,
                   summary, first_results, unit_call>>

NextPrompts ==
    \/ GetPromptForData
    \/ ProcessMarkdownCall
    \/ ProcessMarkdownReturn

SpecPrompts == InitPrompts /\ [][NextPrompts]_vars

-----------------------------------------------------------------------------
(* PDFParser.parse_single_pdf, parse_multiple_pdfs and their async twins,  *)
(* each called on its own.  The batch variants send ONE request for the    *)
(* whole list; the mocked backend answers it with one result per path, in  *)
(* the order of the list, or raises the exception of the first document it *)
(* cannot parse.                                                           *)

SingleParsers == {"parse_single_pdf", "parse_single_pdf_async"}
BatchParsers == {"parse_multiple_pdfs", "parse_multiple_pdfs_async"}

ParserCalls ==
    { [fn |-> f, pdf_path |-> p] : f \in SingleParsers, p \in Paths }
    \cup
    { [fn |-> f, pdf_paths |-> ps] : f \in BatchParsers, ps \in ListsUpTo(MaxDocs) }

InitParser == \E c \in ParserCalls : UnitInit(c)

\* The request is with the backend.
InFlightCall == [in_flight |-> TRUE]

\* A batch variant that looked at the first path only.
VerifyAllExist_FirstOnly(paths) ==
    IF Len(paths) > 0 /\ ~Exists(paths[1]) THEN NotFound(paths[1]) ELSE Ok

\* for pdf_path in pdf_paths: if not pdf_path.exists(): raise FileNotFoundError
\* The exception of the first missing path, or Ok when the loop runs through.
VerifyAllExist(paths) ==
    LET missing == { i \in 1..Len(paths) : ~Exists(paths[i]) }
    IN  IF missing = {} THEN Ok
        ELSE NotFound(paths[CHOOSE i \in missing : \A j \in missing : i <= j])

\* self.parser.parse(str(pdf_path)) / aparse: the backend's answer for one path.
BackendParse(p) ==
    IF IsException(DocOf(p).parse) THEN DocOf(p).parse ELSE [pages |-> DocOf(p).pages]

\* self.parser.parse([...]) / aparse([...]): the backend's answer for a list.
BackendParseBatch(paths) ==
    LET bad == { i \in 1..Len(paths) : IsException(DocOf(paths[i]).parse) }
    IN  IF bad = {} THEN [results |-> [i \in 1..Len(paths) |-> DocOf(paths[i]).pages]]
        ELSE DocOf(paths[CHOOSE i \in bad : \A j \in bad : i <= j]).parse

\* parse_single_pdf(_async) up to self.parser.parse / await self.parser.aparse
ParseSingleCall ==
    /\ unit_call.fn \in SingleParsers
    /\ unit_ret = Pending
    /\ IF ~Exists(unit_call.pdf_path)
       THEN /\ unit_ret' = [raised |-> NotFound(unit_call.pdf_path)]
            /\ remote' = remote
       ELSE /\ unit_ret' = InFlightCall
            /\ Send(0, "parse")
    /\ UNCHANGED <<batch_vars, files, writes, billed, argv, environ, main_pc, exit_code,
                   summary, first_results, unit_call>>

\* The backend answers; the pages are joined and the dictionary is returned.
ParseSingleReturn ==
    /\ unit_call.fn \in SingleParsers
    /\ unit_ret = InFlightCall
    /\ LET answer == BackendParse(unit_call.pdf_path)
       IN  IF IsException(answer)
           THEN unit_ret' = [raised |-> answer]
           ELSE unit_ret' = [value |-> ParsedData(unit_call.pdf_path, answer.pages)]
    /\ UNCHANGED <<batch_vars, env_vars, argv, environ, main_pc, exit_code, summary,
                   first_results, unit_call>>

\* parse_multiple_pdfs(_async) up to the backend call: every path is checked,
\* then the whole list is sent in one request.
ParseMultipleCall ==
    /\ unit_call.fn \in BatchParsers
    /\ unit_ret = Pending
    /\ IF IsException(VerifyAllExist(unit_call.pdf_paths))
       THEN /\ unit_ret' = [raised |-> VerifyAllExist(unit_call.pdf_paths)]
            /\ remote' = remote
       ELSE /\ unit_ret' = InFlightCall
            /\ Send(0, "parse")
    /\ UNCHANGED <<batch_vars, files, writes, billed, argv, environ, main_pc, exit_code,
                   summary, first_results, unit_call>>

\* The backend answers; zip(pdf_paths, results) builds one dictionary per path.
ParseMultipleReturn ==
    /\ unit_call.fn \in BatchParsers
    /\ unit_ret = InFlightCall
    /\ LET answer == BackendParseBatch(unit_call.pdf_paths)
       IN  IF IsException(answer)
           THEN unit_ret' = [raised |-> answer]
           ELSE unit_ret' =
                  [value |-> [i \in 1..Len(unit_call.pdf_paths) |->
                                ParsedData(unit_call.pdf_paths[i], answer.results[i])]]
    /\ UNCHANGED <<batch_vars, env_vars, argv, environ, main_pc, exit_code, summary,
                   first_results, unit_call>>

NextParser ==
    \/ ParseSingleCall
    \/ ParseSingleReturn
    \/ ParseMultipleCall
    \/ ParseMultipleReturn

SpecParser == InitParser /\ [][NextParser]_vars

-----------------------------------------------------------------------------
(* What the fixture says about a document under the flags of the call *)

\* The step of a document's run that raises: "exists", "parse", "save_md",
\* "complete", "save_nl", or "none" when every operation succeeds.
FirstFailure(p) ==
    LET d == DocOf(p)
    IN  IF ~d.exists THEN "exists"
        ELSE IF IsException(d.parse) THEN "parse"
        ELSE IF save_markdown /\ IsException(d.md_write) THEN "save_md"
        ELSE IF IsException(d.complete) THEN "complete"
        ELSE IF save_natural_language /\ IsException(d.nl_write) THEN "save_nl"
        ELSE "none"

\* The exception that step raises.
FailureOf(p) ==
    LET d == DocOf(p)
        k == FirstFailure(p)
    IN  IF k = "exists" THEN NotFound(p)
        ELSE IF k = "parse" THEN d.parse
        ELSE IF k = "save_md" THEN d.md_write
        ELSE IF k = "complete" THEN d.complete
        ELSE d.nl_write

Failing == { i \in 1..N : FirstFailure(pdf_paths[i]) # "none" }

-----------------------------------------------------------------------------
(* C1 *)

\* C1: both batch methods return a list with exactly one record per input
\* path, and the record at position i carries the file name of the path at
\* position i (empty list, duplicates and failing paths included).
C1_OneRecordPerInput ==
    call = "returned" =>
        /\ Len(results) = Len(pdf_paths)
        /\ \A i \in 1..Len(pdf_paths) : results[i].pdf_file = Name(pdf_paths[i])

\* A concurrent batch has returned for a list that names the same path twice,
\* a path whose processing fails.
C1_Witness ==
    /\ call = "returned"
    /\ use_async
    /\ N >= 2
    /\ \E i, j \in 1..N : i < j /\ pdf_paths[i] = pdf_paths[j]
    /\ HasError(results[1])
    /\ Len(results) = N

-----------------------------------------------------------------------------
(* C2 *)

\* C2: a batch call never raises, and when exactly one document of the batch
\* has a failing parse, completion or persistence step, the batch returns a
\* failure record for that document and a success record, with the outputs
\* written, for each of the others, wherever the failing document stands and
\* on both batch paths.
C2_SingleFailureIsolated ==
    /\ call # "raised"
    /\ (call = "returned" /\ Cardinality(Failing) = 1) =>
          \A i \in 1..N :
             IF i \in Failing
             THEN HasError(results[i])
             ELSE /\ ~HasError(results[i])
                  /\ pc[i] = "done"
                  /\ save_markdown => results[i].markdown_path \in DOMAIN files
                  /\ save_natural_language =>
                        results[i].natural_language_path \in DOMAIN files

\* The sequential batch has returned; its first document failed at a remote
\* or persistence step, the documents after it did not.
C2_Witness ==
    /\ call = "returned"
    /\ ~use_async
    /\ N >= 2
    /\ Failing = {1}
    /\ FirstFailure(pdf_paths[1]) \in {"parse", "complete", "save_md", "save_nl"}
    /\ ~HasError(results[N])

-----------------------------------------------------------------------------
(* C3 *)

\* The error descriptions the run of document p can end with.
OwnErrors(p) ==
    LET d == DocOf(p)
    IN  { Str(x) : x \in { y \in {NotFound(p), d.parse, d.md_write, d.complete, d.nl_write} :
                            IsException(y) } }

\* C3: in the concurrent batch, whatever the order in which the tasks end,
\* the record at position i carries the name of document i together with the
\* outcome of document i's own task: its text, page count and token counts,
\* or one of its own errors.
C3_PairedByIndex ==
    (call = "returned" /\ use_async) =>
        \A i \in 1..N :
            LET p == pdf_paths[i]
                d == DocOf(p)
                r == results[i]
            IN  /\ r.pdf_file = Name(p)
                /\ IF HasError(r)
                   THEN /\ IsException(task_out[i])
                        /\ r.error = Str(task_out[i])
                        /\ r.error \in OwnErrors(p)
                   ELSE /\ r = task_out[i]
                        /\ r.markdown = Join(d.pages, PageJoiner)
                        /\ r.page_count = Len(d.pages)
                        /\ r.natural_language = d.text
                        /\ r.input_tokens = d.input_tokens
                        /\ r.output_tokens = d.output_tokens

\* The concurrent batch has returned although the task of the last document
\* ended first, and the documents' outcomes differ.
C3_Witness ==
    /\ call = "returned"
    /\ use_async
    /\ N >= 2
    /\ finished[1] = N
    /\ HasError(results[1]) # HasError(results[N])

-----------------------------------------------------------------------------
(* C4 *)

\* C4: for the same input list, the same flags and the same backend answers
\* per document, the report process_multiple_pdfs_async returns equals the
\* report process_multiple_pdfs returned, record by record, whatever the
\* interleaving of the concurrent tasks.
C4_SameReport ==
    (main_pc = "second" /\ call = "returned") => results = first_results

\* Both calls have returned; in the concurrent one the task of the last
\* document ended first, and the report holds a success and a failure.
C4_Witness ==
    /\ main_pc = "second"
    /\ call = "returned"
    /\ N >= 2
    /\ finished[1] = N
    /\ HasError(first_results[1]) # HasError(first_results[N])

-----------------------------------------------------------------------------
(* C5 *)

InFlight(i) == pc[i] \in {"in_parse", "in_complete"}

\* C5 as claimed: in the concurrent batch every remote call in flight, parse
\* or completion, is a suspension point: a task whose awaited answer has
\* arrived may run while another document's remote call is in flight.
C5_EveryRemoteCallSuspends ==
    (call = "active" /\ use_async) =>
        \A i, j \in 1..N :
            (i # j /\ InFlight(i) /\ pc[j] = "in_parse") => ENABLED AsyncParseReturn(j)

\* C5 as amended: in the concurrent batch only the parse call is a suspension
\* point.  While a task awaits its parse call the other tasks may run, so
\* several parse calls can be in flight together; the completion call blocks
\* the event loop, so at most one completion call is in flight at any time and
\* no other task starts or resumes until it has returned.
C5_OnlyParseSuspends ==
    (call = "active" /\ use_async) =>
        /\ Cardinality({ i \in 1..N : pc[i] = "in_complete" }) <= 1
        /\ \A i, j \in 1..N :
            /\ (i # j /\ pc[i] = "in_parse" /\ pc[j] = "in_parse" /\ LoopFree)
                  => ENABLED AsyncParseReturn(j)
            /\ (i # j /\ pc[i] = "in_complete")
                  => /\ ~ENABLED AsyncParseReturn(j)
                     /\ ~ENABLED AsyncParseCall(j)
                     /\ ~ENABLED AsyncCompleteReturn(j)

\* One document's completion call is in flight while another document's
\* parse call is.
C5_Witness ==
    /\ call = "active"
    /\ use_async
    /\ \E i, j \in 1..N : pc[i] = "in_complete" /\ pc[j] = "in_parse"

-----------------------------------------------------------------------------
(* C6 *)

\* C6: within one batch call no two positions of the input list write the
\* same output file.
C6_DistinctOutputFiles ==
    \A w1, w2 \in writes : w1.pos # w2.pos => w1.path # w2.path

-----------------------------------------------------------------------------
(* C7 *)

Sent(i, api) == \E k \in 1..Len(remote) : remote[k] = [pos |-> i, api |-> api]

WrittenBy(i) == { w.path : w \in { x \in writes : x.pos = i } }

\* C7: when a step of a document's run raises (existence check, parse,
\* markdown save, completion, natural-language save), no later step of that
\* document has run, and the document gets exactly one record, a failure
\* record with its file name and the description of that error: in the
\* sequential batch at once, in the concurrent batch when it returns.
C7_ErrorAbortsDocument ==
    \A i \in 1..N :
        LET p == pdf_paths[i]
            k == FirstFailure(p)
            md == InDir(MARKDOWN_DIR, [stem |-> p.stem, suffix |-> "md"])
        IN  (pc[i] = "done" /\ k # "none") =>
              /\ Sent(i, "parse") <=> k # "exists"
              /\ md \in WrittenBy(i) <=> (save_markdown /\ k \in {"complete", "save_nl"})
              /\ Sent(i, "complete") <=> k \in {"complete", "save_nl"}
              /\ WrittenBy(i) \subseteq {md}
              /\ (~use_async \/ call = "returned") =>
                    /\ Len(results) >= i
                    /\ results[i] = [pdf_file |-> Name(p), error |-> Str(FailureOf(p))]
              /\ call = "returned" => Len(results) = N

\* A sequential batch has returned in which a document's completion call
\* failed after its markdown had been saved.
C7_Witness ==
    /\ call = "returned"
    /\ ~use_async
    /\ \E i \in 1..N :
          /\ FirstFailure(pdf_paths[i]) = "complete"
          /\ HasError(results[i])
          /\ WrittenBy(i) # {}

-----------------------------------------------------------------------------
(* C8 *)

\* Neither the command line nor the environment holds one of the two keys.
CredentialAbsent ==
    \/ argv.llama_api_key = None /\ environ.LLAMA_PARSE_API_KEY = ""
    \/ argv.anthropic_api_key = None /\ environ.ANTHROPIC_API_KEY = ""

\* C8 as claimed: the process exits with 1 if no input document is found and
\* with 0 in every other case.
C8_ExitOneOnlyWithoutDocuments ==
    main_pc = "exited" => exit_code = IF pdf_paths = <<>> THEN 1 ELSE 0

\* C8 as amended: the process exits with 1 if no input document is found or
\* if a credential is missing when the pipeline is constructed, and with 0 in
\* every other case, also when some or all documents of the batch fail.
C8_ExitCodes ==
    main_pc = "exited" =>
        exit_code = IF pdf_paths = <<>> \/ CredentialAbsent THEN 1 ELSE 0

\* The process has exited with 0 after a batch in which every document failed.
C8_Witness ==
    /\ main_pc = "exited"
    /\ exit_code = 0
    /\ N >= 1
    /\ \A i \in 1..N : HasError(results[i])

-----------------------------------------------------------------------------
(* C9 *)

\* C9: when the parsing or the language-model credential is absent, the
\* process ends at the construction of the pipeline: no parse request, no
\* completion request, no file write, no batch call and no summary, and the
\* process exits with 1.
C9_MissingCredentialAborts ==
    CredentialAbsent =>
        /\ remote = <<>>
        /\ files = << >>
        /\ writes = {}
        /\ call = "none"
        /\ results = <<>>
        /\ ~summary.printed
        /\ main_pc \in {"start", "construct", "exited"}
        /\ main_pc = "exited" => exit_code = 1

\* Documents were found, the parsing key is there and the language-model key
\* is not: the process has exited at the construction.
C9_Witness ==
    /\ main_pc = "exited"
    /\ pdf_paths # <<>>
    /\ Or(argv.llama_api_key, environ.LLAMA_PARSE_API_KEY) # ""
    /\ argv.anthropic_api_key = None /\ environ.ANTHROPIC_API_KEY = ""
    /\ exit_code = 1

-----------------------------------------------------------------------------
(* C10 *)

\* The tokens the completion backend reports for the document at position i.
DocTokens(i) == DocOf(pdf_paths[i]).input_tokens + DocOf(pdf_paths[i]).output_tokens

RECURSIVE SumDocTokens(_)
SumDocTokens(S) ==
    IF S = {} THEN 0
    ELSE LET i == CHOOSE x \in S : TRUE IN DocTokens(i) + SumDocTokens(S \ {i})

\* C10: in the summary every record counts as exactly one of success (no
\* error field) and failure (error field), succeeded + failed = total = the
\* number of inputs, and the total token usage is the sum of input and output
\* tokens over the documents that ended as success records only; it is
\* printed only if there is a success.
C10_SummaryCounts ==
    summary.printed =>
        /\ summary.total = N
        /\ summary.successful + summary.failed = summary.total
        /\ summary.failed = Cardinality(Failing)
        /\ \A i \in 1..N : HasError(results[i]) <=> i \in Failing
        /\ Len(summary.failed_files) = summary.failed
        /\ summary.total_tokens =
              IF summary.successful > 0
              THEN <<SumDocTokens((1..N) \ Failing)>>
              ELSE <<>>

\* A summary with a success and with a failure whose completion call had
\* been answered: the backend has reported more tokens than the total shows.
C10_Witness ==
    /\ summary.printed
    /\ summary.successful > 0
    /\ summary.failed > 0
    /\ summary.total_tokens # <<>>
    /\ billed > summary.total_tokens[1]


-----------------------------------------------------------------------------
(* C11 *)

\* The tag that names a template.
TagOf(template) ==
    IF template = "custom" THEN "custom"
    ELSE IF template = "STRUCTURED_DATA_EXTRACTION_PROMPT" THEN "table"
    ELSE "general"

\* process_markdown has returned its dictionary.
ProcessMarkdownReturned ==
    /\ unit_call.fn = "process_markdown"
    /\ "value" \in DOMAIN unit_ret

\* C11: the prompt-variant tag of a completion result names the template the
\* submitted prompt was built from, for every selector value: "table" for the
\* structured template (forced or auto-detected), "general" for the general
\* one, "custom" for a custom prompt.
C11_TagNamesSubmittedVariant ==
    ProcessMarkdownReturned =>
        unit_ret.value.prompt_type = TagOf(unit_ret.prompt.template)


-----------------------------------------------------------------------------
(* C12 *)

\* The documents a parse variant has returned, each with the pages the
\* backend gave for it: one for the single variants, one per path for the
\* batch variants.
ParsedOutputs ==
    IF "value" \notin DOMAIN unit_ret THEN <<>>
    ELSE IF unit_call.fn \in SingleParsers
         THEN << [fn |-> unit_call.fn, pages |-> DocOf(unit_call.pdf_path).pages,
                  parsed |-> unit_ret.value] >>
    ELSE IF unit_call.fn \in BatchParsers
         THEN [i \in 1..Len(unit_call.pdf_paths) |->
                 [fn |-> unit_call.fn, pages |-> DocOf(unit_call.pdf_paths[i]).pages,
                  parsed |-> unit_ret.value[i]]]
    ELSE <<>>

RECURSIVE PageStart(_, _)
\* Where page k begins in a text whose pages are two characters apart.
PageStart(pages, k) ==
    IF k = 1 THEN 0 ELSE PageStart(pages, k - 1) + Len(pages[k - 1]) + 2

\* text is the pages in order, a blank line ("\n\n") and nothing else between
\* two pages.
BlankLineBetweenPages(text, pages) ==
    LET n == Len(pages)
    IN  /\ Len(text) = IF n = 0 THEN 0 ELSE PageStart(pages, n) + Len(pages[n])
        /\ \A k \in 1..n :
             SubSeq(text, PageStart(pages, k) + 1, PageStart(pages, k) + Len(pages[k]))
                = pages[k]
        /\ \A k \in 1..(n - 1) :
             /\ text[PageStart(pages, k + 1) - 1] = "LF"
             /\ text[PageStart(pages, k + 1)] = "LF"

\* C12 as stated: in all four parse variants the full text of a parsed
\* document is its page texts joined with the configured page separator
\* "\n\n---\n\n".
C12_JoinedWithPageSeparator ==
    \A i \in 1..Len(ParsedOutputs) :
        ParsedOutputs[i].parsed.markdown = Join(ParsedOutputs[i].pages, page_separator)

\* C12, amended: in all four parse variants the full text of a parsed
\* document is its page texts in page order with a blank line ("\n\n")
\* between consecutive pages, and the page count is the number of pages.
C12_JoinedWithBlankLine ==
    \A i \in 1..Len(ParsedOutputs) :
        /\ BlankLineBetweenPages(ParsedOutputs[i].parsed.markdown, ParsedOutputs[i].pages)
        /\ ParsedOutputs[i].parsed.page_count = Len(ParsedOutputs[i].pages)

\* A batch variant has returned two documents, one of them of several pages;
\* (the single variants' returns are reached by the same specification).
C12_Witness ==
    /\ unit_call.fn = "parse_multiple_pdfs_async"
    /\ Len(ParsedOutputs) = 2
    /\ \E i \in 1..2 : Len(ParsedOutputs[i].pages) >= 2


-----------------------------------------------------------------------------
(* C13 *)

\* get_prompt_for_data was called with the selector None and has returned.
AutoSelected ==
    /\ unit_call.fn = "get_prompt_for_data"
    /\ unit_call.use_table_prompt = None
    /\ "value" \in DOMAIN unit_ret

\* The text holds a one-atom indicator, or three dashes in a row.
HasIndicator(text) ==
    \/ \E k \in 1..Len(text) :
         text[k] \in {"|", "<table>", "<tr>", "<td>", "tatejiku", "yokojiku", "gyo",
                      "retsu", "seru"}
    \/ \E k \in 1..(Len(text) - 2) :
         text[k] = "-" /\ text[k + 1] = "-" /\ text[k + 2] = "-"

\* C13: with the selector None, get_prompt_for_data formats the structured
\* template if and only if at least one indicator substring occurs in the
\* text, and the general template otherwise; the prompt carries the text.
C13_StructuredIffIndicator ==
    AutoSelected =>
        /\ unit_ret.value.template =
              IF HasIndicator(unit_call.markdown_content)
              THEN "STRUCTURED_DATA_EXTRACTION_PROMPT" ELSE "GENERAL_EXTRACTION_PROMPT"
        /\ unit_ret.value.markdown_content = unit_call.markdown_content

\* One indicator alone sufficed: a text whose only indicator is a single
\* pipe, with two dashes that do not make a rule, got the structured template.
C13_Witness ==
    /\ AutoSelected
    /\ unit_call.markdown_content = <<"-", "|", "-">>
    /\ unit_ret.value.template = "STRUCTURED_DATA_EXTRACTION_PROMPT"


-----------------------------------------------------------------------------
(* C14 *)

\* C14: --table-prompt and --general-prompt are mutually exclusive: an
\* invocation that sets both is stopped at the command line, so it never
\* reaches a batch call in which one of the two selectors has silently taken
\* effect.
C14_BothFlagsRejected ==
    (argv # NoArgs /\ argv.table_prompt /\ argv.general_prompt) =>
        /\ call = "none"
        /\ remote = <<>>


-----------------------------------------------------------------------------
(* C15 *)

\* A batch parse variant was called with a list that names a missing file.
BatchWithMissingPath ==
    /\ unit_call.fn \in BatchParsers
    /\ \E i \in 1..Len(unit_call.pdf_paths) : ~DocOf(unit_call.pdf_paths[i]).exists

\* C15: parse_multiple_pdfs and parse_multiple_pdfs_async check every path
\* before any remote call: when some path of the list does not exist, wherever
\* in the list it stands, no request is ever sent to the backend and the call
\* ends, if it has ended, with the not-found error of a missing path.
C15_MissingPathNoRemoteCall ==
    BatchWithMissingPath =>
        /\ remote = <<>>
        /\ unit_ret # InFlightCall
        /\ unit_ret # Pending =>
             /\ DOMAIN unit_ret = {"raised"}
             /\ unit_ret.raised.type = "FileNotFoundError"
             /\ \E i \in 1..Len(unit_call.pdf_paths) :
                  /\ ~DocOf(unit_call.pdf_paths[i]).exists
                  /\ unit_ret.raised = NotFound(unit_call.pdf_paths[i])

\* The async batch variant has raised for a list whose last path is the
\* missing one, after a first path that exists.
C15_Witness ==
    /\ unit_call.fn = "parse_multiple_pdfs_async"
    /\ Len(unit_call.pdf_paths) = 2
    /\ DocOf(unit_call.pdf_paths[1]).exists
    /\ ~DocOf(unit_call.pdf_paths[2]).exists
    /\ "raised" \in DOMAIN unit_ret


-----------------------------------------------------------------------------
(* C16 *)

\* The list hands the same document to the pipeline more than once and
\* nothing else, and one run of it is over.
SameDocumentAgain ==
    /\ N >= 2
    /\ \A i, j \in 1..N : pdf_paths[i] = pdf_paths[j]
    /\ \E i \in 1..N : pc[i] = "done"

\* C16: persistence is idempotent: once a document has been processed with
\* the backends answering as before, processing it again leaves the same set
\* of output files with the same contents; the later run overwrites
\* <stem>.md and <stem>_nl.txt in place and adds no file.
C16_RerunLeavesFilesAsTheyWere ==
    [][ SameDocumentAgain => files' = files ]_vars

\* Two runs of one document, both persisting, are over; the second has
\* written <stem>.md and <stem>_nl.txt on top of the first run's files.
C16_Witness ==
    /\ N = 2
    /\ pdf_paths[1] = pdf_paths[2]
    /\ save_markdown /\ save_natural_language
    /\ call = "returned"
    /\ ~HasError(results[1]) /\ ~HasError(results[2])
    /\ \A i \in 1..2 :
         { w.path : w \in { x \in writes : x.pos = i } }
            = { MarkdownPath(ParsedData(pdf_paths[i], DocOf(pdf_paths[i]).pages)),
                NlPath(NlFilename(pdf_paths[i])) }
    /\ DOMAIN files
          = { MarkdownPath(ParsedData(pdf_paths[1], DocOf(pdf_paths[1]).pages)),
              NlPath(NlFilename(pdf_paths[1])) }


-----------------------------------------------------------------------------
(* C17 *)

\* Task i has run to its end: it returned its record or raised.
TaskOver(i) == i <= N => (pc[i] = "done" /\ task_out[i] # Pending)

\* C17: in the concurrent path the failure of one task cancels or skips no
\* sibling: with every remote call answered, every launched task eventually
\* runs to completion or failure, the batch call eventually returns, and it
\* returns only after all tasks have ended, each failing exactly when its own
\* document fails.
C17_AllTasksEndThenBatchReturns ==
    /\ \A i \in 1..MaxDocs : <>TaskOver(i)
    /\ <>(call = "returned")
    /\ [](call # "raised")
    /\ [](call = "returned" =>
            /\ \A i \in 1..N : TaskOver(i)
            /\ \A i \in 1..N : IsException(task_out[i]) <=> (i \in Failing))

\* The batch has returned although its first task had failed while the
\* second was still waiting for the parser: the sibling went on to succeed.
C17_Witness ==
    /\ call = "returned"
    /\ N = 2
    /\ finished = <<1, 2>>
    /\ IsException(task_out[1])
    /\ ~IsException(task_out[2])
    /\ \E k \in 1..Len(remote) : remote[k] = [pos |-> 2, api |-> "complete"]


-----------------------------------------------------------------------------
(* C18 *)

\* C18: the sequential batch handles the documents strictly in input order
\* and one at a time: no step of document i has run before the records of all
\* documents before it are appended, document i's record is appended when its
\* run ends, at most one remote call is in flight at any time, and the
\* requests reach the backends in the order of the list.
C18_OneDocumentAtATime ==
    ~use_async =>
        /\ \A i \in 1..N : pc[i] # "start" => Len(results) >= i - 1
        /\ \A i \in 1..N : pc[i] = "done" <=> Len(results) >= i
        /\ \A i \in 1..Len(results) : results[i].pdf_file = Name(pdf_paths[i])
        /\ Cardinality({ i \in 1..N : InFlight(i) }) <= 1
        /\ \A k, l \in 1..Len(remote) : k < l => remote[k].pos <= remote[l].pos

\* The second document's parse request is in flight; the first document's
\* run, which sent two requests, is over and its record is in the list.
C18_Witness ==
    /\ ~use_async
    /\ N = 2
    /\ pc = <<"done", "in_parse">>
    /\ Len(results) = 1
    /\ Len(remote) = 3
    /\ remote[3].pos = 2


-----------------------------------------------------------------------------
(* C19 *)

\* The markdown file and the natural-language file of the document at
\* position i.
MdFileOf(i) == MarkdownPath(ParsedData(pdf_paths[i], DocOf(pdf_paths[i]).pages))
NlFileOf(i) == NlPath(NlFilename(pdf_paths[i]))

\* C19: the markdown file is written after the parse has succeeded and before
\* the completion request is sent, the natural-language file only after the
\* completion has succeeded; so a document that fails at the completion step
\* leaves its <stem>.md persisted (when markdown saving is on) and no
\* natural-language file is written for it in that run.
C19_MarkdownBeforeCompletionNlAfter ==
    \A i \in 1..N :
        /\ pc[i] \in {"start", "in_parse"} => WrittenBy(i) = {}
        /\ (Sent(i, "complete") /\ save_markdown) =>
              /\ MdFileOf(i) \in WrittenBy(i)
              /\ MdFileOf(i) \in DOMAIN files
        /\ NlFileOf(i) \in WrittenBy(i) =>
              /\ pc[i] = "done"
              /\ Sent(i, "complete")
              /\ ~IsException(DocOf(pdf_paths[i]).complete)
        /\ (pc[i] = "done" /\ FirstFailure(pdf_paths[i]) = "complete") =>
              /\ WrittenBy(i) = IF save_markdown THEN {MdFileOf(i)} ELSE {}
              /\ save_markdown =>
                   files[MdFileOf(i)].markdown
                      \in { ParsedData(pdf_paths[j], DocOf(pdf_paths[j]).pages).markdown :
                              j \in 1..N }

\* A sequential batch has returned a failure record for a document whose
\* completion request was refused: its markdown file is on disk, its
\* natural-language file is not.
C19_Witness ==
    /\ ~use_async
    /\ call = "returned"
    /\ save_markdown /\ save_natural_language
    /\ N >= 1
    /\ FirstFailure(pdf_paths[N]) = "complete"
    /\ HasError(results[N])
    /\ MdFileOf(N) \in DOMAIN files
    /\ NlFileOf(N) \notin DOMAIN files


-----------------------------------------------------------------------------
(* C20 *)

\* The command line names one path that is no directory and no file.
MissingFileGiven ==
    /\ argv.pdf_path \in Paths
    /\ ~DocOf(argv.pdf_path).exists

\* C20: a single path on the command line that is not a directory and does
\* not exist is still taken as a one-element list: main() does not take the
\* "No PDF files found" exit, no parse or completion request is ever sent,
\* and when the pipeline can be constructed the run ends with exit code 0 and
\* a report that holds exactly one record, the not-found failure of that path.
C20_MissingFileIsOneFailureRecord ==
    MissingFileGiven =>
        /\ main_pc # "start" => pdf_paths = <<argv.pdf_path>>
        /\ remote = <<>>
        /\ files = << >>
        /\ (main_pc = "exited" /\ exit_code = 1) => CredentialAbsent
        /\ (main_pc = "exited" /\ ~CredentialAbsent) =>
              /\ exit_code = 0
              /\ results = << [pdf_file |-> Name(argv.pdf_path),
                               error |-> <<"PDF file not found: ", argv.pdf_path>>] >>
              /\ summary.printed
              /\ summary.total = 1
              /\ summary.successful = 0
              /\ summary.failed = 1
              /\ summary.failed_files = << <<results[1].pdf_file, results[1].error>> >>

\* main() has exited after a concurrent run over the one missing path, with
\* the summary printed.
C20_Witness ==
    /\ MissingFileGiven
    /\ main_pc = "exited"
    /\ argv.use_async
    /\ summary.printed
    /\ Len(results) = 1
    /\ HasError(results[1])

====
